---- MODULE Spec2Model ----
(***************************************************************************)
(* State-machine model of the responsive checker: the App component (URL   *)
(* form, view mode, grid filter, fullscreen), the CombinedView carousel    *)
(* (selections, lightbox, rotation, auto-play interval), and the two       *)
(* preview components, DeviceFrame (grid / fullscreen) and DevicePreview   *)
(* (carousel / lightbox), each with its iframe.                            *)
(*                                                                         *)
(* One action models one event handler together with the React commit it   *)
(* causes: child components mounting and unmounting, effects and effect    *)
(* cleanups, and the iframe starting a new load when its src changes.      *)
(***************************************************************************)
EXTENDS Integers, Sequences, FiniteSets, TLC

(***************************************************************************)
(* Strings.  A JavaScript string is a TLA+ string; Char(s, i) is s[i-1].   *)
(***************************************************************************)
Char(s, i) == SubSeq(s, i, i)

DropFirst(s, n) == SubSeq(s, n + 1, Len(s))

StartsWith(s, p) == Len(s) >= Len(p) /\ SubSeq(s, 1, Len(p)) = p

UpperLetters == "ABCDEFGHIJKLMNOPQRSTUVWXYZ"

LowerLetters == "abcdefghijklmnopqrstuvwxyz"

Digits == "0123456789"

\* The position of character c in string s, 0 when it does not occur.
RECURSIVE IndexFrom(_, _, _)
IndexFrom(s, c, i) ==
    IF i > Len(s) THEN 0
    ELSE IF Char(s, i) = c THEN i
    ELSE IndexFrom(s, c, i + 1)

IndexOf(s, c) == IndexFrom(s, c, 1)

IsUpper(c) == IndexOf(UpperLetters, c) > 0

IsAlpha(c) == IndexOf(UpperLetters, c) > 0 \/ IndexOf(LowerLetters, c) > 0

LowerChar(c) == IF IsUpper(c) THEN Char(LowerLetters, IndexOf(UpperLetters, c)) ELSE c

RECURSIVE ToLower(_)
ToLower(s) == IF s = "" THEN "" ELSE LowerChar(Char(s, 1)) \o ToLower(DropFirst(s, 1))

\* White space as String.prototype.trim and the URL parser strip it; the
\* inputs of the model use the space character only.
IsSpace(c) == c = " "

RECURSIVE TrimLeft(_)
TrimLeft(s) ==
    IF s # "" /\ IsSpace(Char(s, 1)) THEN TrimLeft(DropFirst(s, 1)) ELSE s

RECURSIVE TrimRight(_)
TrimRight(s) ==
    IF s # "" /\ IsSpace(Char(s, Len(s))) THEN TrimRight(SubSeq(s, 1, Len(s) - 1)) ELSE s

trim(s) == TrimRight(TrimLeft(s))

\* The first position >= i of s holding a character of the string stops,
\* Len(s) + 1 when there is none.
RECURSIVE FindAny(_, _, _)
FindAny(s, stops, i) ==
    IF i > Len(s) THEN Len(s) + 1
    ELSE IF IndexOf(stops, Char(s, i)) > 0 THEN i
    ELSE FindAny(s, stops, i + 1)

\* The first position >= i of s holding a character not in the string
\* allowed, Len(s) + 1 when there is none.
RECURSIVE FindNot(_, _, _)
FindNot(s, allowed, i) ==
    IF i > Len(s) THEN Len(s) + 1
    ELSE IF IndexOf(allowed, Char(s, i)) = 0 THEN i
    ELSE FindNot(s, allowed, i + 1)

\* The last position of character c in s, 0 when it does not occur.
RECURSIVE LastIndexFrom(_, _, _)
LastIndexFrom(s, c, i) ==
    IF i < 1 THEN 0
    ELSE IF Char(s, i) = c THEN i
    ELSE LastIndexFrom(s, c, i - 1)

LastIndexOf(s, c) == LastIndexFrom(s, c, Len(s))

\* Every character of s is one of the string allowed.
AllIn(s, allowed) == FindNot(s, allowed, 1) = Len(s) + 1

\* Decimal value of a string of digits, saturating above the largest port
\* so that long digit strings stay small numbers.
RECURSIVE DecimalFrom(_, _)
DecimalFrom(s, acc) ==
    IF s = "" THEN acc
    ELSE IF acc > 65535 THEN acc
    ELSE DecimalFrom(DropFirst(s, 1), acc * 10 + (IndexOf(Digits, Char(s, 1)) - 1))

(***************************************************************************)
(* App.normalizeUrl: trim, then prepend "https://" unless the trimmed      *)
(* input is empty or matches /^https?:\/\//i.                              *)
(***************************************************************************)
DefaultScheme == "https://"

MatchesHttpPrefix(s) ==
    StartsWith(ToLower(s), "http://") \/ StartsWith(ToLower(s), "https://")

normalizeUrl(url) ==
    LET normalized == trim(url)
    IN  IF normalized # "" /\ ~MatchesHttpPrefix(normalized)
        THEN DefaultScheme \o normalized
        ELSE normalized

(***************************************************************************)
(* App.validateUrl: TRUE iff `new URL(url)` does not throw, that is, iff   *)
(* the URL parser (no base URL) succeeds.  The parser is followed state by *)
(* state for the characters the model's inputs use: ASCII letters, digits  *)
(* and punctuation.  Hosts are checked for emptiness and forbidden code    *)
(* points; IPv4 / IPv6 literals, percent-decoding and IDNA mapping of the  *)
(* host and the file: scheme's own states are outside the inputs used.     *)
(***************************************************************************)
SpecialSchemes == {"http", "https", "ftp", "ws", "wss"}

\* Forbidden host code points that can be written in the model's strings
\* ("%" is forbidden in a domain, not in an opaque host).
ForbiddenHostChars == " #/:<>?@[\\]^|"

ForbiddenDomainChars == ForbiddenHostChars \o "%"

SchemeChars == UpperLetters \o LowerLetters \o Digits \o "+-."

\* Scheme start state and scheme state: the length of the scheme, 0 when
\* the input has no scheme (and, without a base URL, fails to parse).
SchemeLen(s) ==
    LET colon == IndexOf(s, ":")
    IN  IF s # "" /\ IsAlpha(Char(s, 1)) /\ colon > 1
           /\ AllIn(SubSeq(s, 1, colon - 1), SchemeChars)
        THEN colon - 1
        ELSE 0

\* Special authority (ignore) slashes state: every leading "/" and "\".
RECURSIVE SkipSlashes(_)
SkipSlashes(s) ==
    IF s # "" /\ (Char(s, 1) = "/" \/ Char(s, 1) = "\\")
    THEN SkipSlashes(DropFirst(s, 1))
    ELSE s

\* Host parser: a non-empty host free of forbidden code points.
HostOk(host, special) ==
    /\ (special => host # "")
    /\ FindAny(host, IF special THEN ForbiddenDomainChars ELSE ForbiddenHostChars, 1)
         = Len(host) + 1

\* Port state: digits only, at most 65535; the empty port is allowed.
PortOk(port) == AllIn(port, Digits) /\ DecimalFrom(port, 0) <= 65535

\* Authority state, host state and port state over the authority `auth`
\* (the input up to the first "/", "?", "#" and, for a special scheme, "\").
AuthorityOk(auth, special) ==
    LET at == LastIndexOf(auth, "@")
        hostport == DropFirst(auth, at)
        colon == IndexOf(hostport, ":")
        host == IF colon > 0 THEN SubSeq(hostport, 1, colon - 1) ELSE hostport
        port == IF colon > 0 THEN DropFirst(hostport, colon) ELSE ""
    IN  /\ (at > 0 => hostport # "")
        /\ (colon > 0 => host # "")
        /\ HostOk(host, special)
        /\ PortOk(port)

validateUrl(url) ==
    LET input == trim(url)
        n == SchemeLen(input)
        scheme == ToLower(SubSeq(input, 1, n))
        rest == DropFirst(input, n + 1)
    IN  IF n = 0 THEN FALSE
        ELSE IF scheme \in SpecialSchemes
        THEN LET r == SkipSlashes(rest)
             IN  AuthorityOk(SubSeq(r, 1, FindAny(r, "/\\?#", 1) - 1), TRUE)
        ELSE IF StartsWith(rest, "//")
        THEN LET r == DropFirst(rest, 2)
             IN  AuthorityOk(SubSeq(r, 1, FindAny(r, "/?#", 1) - 1), FALSE)
        ELSE TRUE

(***************************************************************************)
(* data/devices: the catalog.  A Device reference held in component state  *)
(* is modelled as the device's position in `devices`; NoDevice is null.    *)
(***************************************************************************)
Dev(n, w, h, t, r, b, notch, island, home) ==
    [name |-> n, width |-> w, height |-> h, type |-> t, bezelRadius |-> r,
     bezelWidth |-> b, hasNotch |-> notch, hasDynamicIsland |-> island,
     hasHomeButton |-> home]

devices ==
    << Dev("iPhone 15 Pro", 393, 852, "phone", 47, 12, FALSE, TRUE, FALSE),
       Dev("iPhone 14", 390, 844, "phone", 47, 12, TRUE, FALSE, FALSE),
       Dev("iPhone SE", 375, 667, "phone", 20, 16, FALSE, FALSE, TRUE),
       Dev("Samsung Galaxy S24", 360, 780, "phone", 38, 10, FALSE, FALSE, FALSE),
       Dev("Google Pixel 8", 412, 915, "phone", 40, 10, FALSE, FALSE, FALSE),
       Dev("iPad Pro 12.9\"", 1024, 1366, "tablet", 18, 20, FALSE, FALSE, FALSE),
       Dev("iPad Air", 820, 1180, "tablet", 18, 20, FALSE, FALSE, FALSE),
       Dev("iPad Mini", 744, 1133, "tablet", 18, 18, FALSE, FALSE, FALSE),
       Dev("Samsung Galaxy Tab S9", 800, 1280, "tablet", 14, 16, FALSE, FALSE, FALSE),
       Dev("MacBook Air 13\"", 1280, 832, "laptop", 10, 24, FALSE, FALSE, FALSE),
       Dev("MacBook Pro 14\"", 1512, 982, "laptop", 10, 24, TRUE, FALSE, FALSE),
       Dev("Laptop HD", 1366, 768, "laptop", 8, 20, FALSE, FALSE, FALSE),
       Dev("Desktop HD", 1920, 1080, "desktop", 4, 16, FALSE, FALSE, FALSE),
       Dev("Desktop 2K", 2560, 1440, "desktop", 4, 16, FALSE, FALSE, FALSE),
       Dev("Ultrawide", 2560, 1080, "desktop", 4, 16, FALSE, FALSE, FALSE) >>

DeviceIds == 1..Len(devices)

NoDevice == 0

DeviceTypes == {"phone", "tablet", "laptop", "desktop"}

\* Array.prototype.filter over the catalog: the matching devices, in order.
RECURSIVE FilterFrom(_, _)
FilterFrom(t, i) ==
    IF i > Len(devices) THEN << >>
    ELSE IF devices[i].type = t THEN <<i>> \o FilterFrom(t, i + 1)
    ELSE FilterFrom(t, i + 1)

DevicesOfType(t) == FilterFrom(t, 1)

\* CombinedView: the three selector lists.
phones == DevicesOfType("phone")

tablets == DevicesOfType("tablet")

desktops == DevicesOfType("desktop") \o DevicesOfType("laptop")

Range(seq) == {seq[i] : i \in 1..Len(seq)}

(***************************************************************************)
(* Bounds of the exploration.                                              *)
(***************************************************************************)
\* The user picks among the first MaxChoice entries of a selector.
MaxChoice == 2

\* Rotation events explored (the code never wraps or caps rotationAngle).
MaxRotations == 3

\* Grid previews whose iframe signals and retries are explored (the other
\* previews stay as they were mounted).
MaxTracked == 2

\* Full turns, either way, over which getDeviceStyle's angle ranges.
MaxTurns == 2

\* Heights of the browser window (window.innerHeight), in pixels.
WindowHeights == {100, 768}

\* The texts the user types into the URL field.
UrlInputs ==
    { "example.com", "not a url", "", "  example.org ", "ftp://example.com",
      "mailto:a@b.co", "HTTP://A.B", "http://a.b/c d", "https://",
      "a.b:99999", "a.b:8080", "https:a.b", "a<b" }

\* The texts typed where the URL form runs beside the preview components.
FewUrlInputs == {"example.org", "not a url"}

\* The text typed while the carousel is explored.
CarouselUrlInputs == {"example.org"}

(***************************************************************************)
(* State.                                                                  *)
(***************************************************************************)
VARIABLES
    \* App
    inputUrl, currentUrl, isValidUrl, selectedDevice, isFullscreen,
    isLandscape, activeFilter, viewMode,
    \* CombinedView.  The component's state exists while it is mounted
    \* (CombinedShown); while it is not, the variables keep the values the
    \* last instance ended with, and a mount sets them to the initial ones.
    selectedPhone, selectedTablet, selectedDesktop, lightboxDevice,
    rotationAngle, isCarouselPlaying,
    \* the number of live setInterval(rotateCarousel, 3000) handles
    interval,
    \* DeviceFrame instances: grid cards keyed by device, and FullscreenKey
    frames,
    \* DevicePreview instances: carousel slots 0..2, and LightboxKey
    previews,
    \* the handler that ran last
    lastEvent

appVars == <<inputUrl, currentUrl, isValidUrl, selectedDevice, isFullscreen,
             isLandscape, activeFilter, viewMode>>

combinedVars == <<selectedPhone, selectedTablet, selectedDesktop, lightboxDevice,
                  rotationAngle, isCarouselPlaying>>

vars == <<appVars, combinedVars, interval, frames, previews, lastEvent>>

NoFilter == "null"

FullscreenKey == 0

FrameKeys == DeviceIds \cup {FullscreenKey}

Slots == {0, 1, 2}

LightboxKey == 3

PreviewKeys == Slots \cup {LightboxKey}

(***************************************************************************)
(* What App renders (part_003:225-331): the fullscreen modal, else the     *)
(* CombinedView, else the grid of the filtered devices.                    *)
(***************************************************************************)
FullscreenShown(fs, sel) == fs /\ sel # NoDevice

CombinedShown(fs, sel, vm) == ~FullscreenShown(fs, sel) /\ vm = "combined"

GridShown(fs, sel, vm) == ~FullscreenShown(fs, sel) /\ vm # "combined"

\* part_003:52-54, tabulated per filter value.
FilteredByFilter ==
    [filter \in DeviceTypes \cup {NoFilter} |->
        IF filter # NoFilter THEN DevicesOfType(filter) ELSE [i \in DeviceIds |-> i]]

filteredDevices(filter) == FilteredByFilter[filter]

FilteredSetByFilter ==
    [filter \in DeviceTypes \cup {NoFilter} |-> Range(FilteredByFilter[filter])]

\* The DeviceFrame instances App renders.
MountedFrames(fs, sel, vm, filter) ==
    IF FullscreenShown(fs, sel) THEN {FullscreenKey}
    ELSE IF vm = "combined" THEN {}
    ELSE FilteredSetByFilter[filter]

CombinedMounted == CombinedShown(isFullscreen, selectedDevice, viewMode)

(***************************************************************************)
(* Component instances.  `pending` is the iframe's side: a load of the     *)
(* current src is in flight and will end in one load or error event.       *)
(***************************************************************************)
NoError == "null"

\* inspected: what checkIfBlocked met at the instance's last load event.
NoInspection == "none"

\* scale: a number as the pair <<numerator, denominator>>; useState(1).
InitialScale == <<1, 1>>

FreshFrame ==
    [mounted |-> TRUE, isLoading |-> TRUE, hasError |-> FALSE,
     errorType |-> NoError, pending |-> TRUE, inspected |-> NoInspection,
     scale |-> InitialScale]

UnmountedFrame ==
    [mounted |-> FALSE, isLoading |-> FALSE, hasError |-> FALSE,
     errorType |-> NoError, pending |-> FALSE, inspected |-> NoInspection,
     scale |-> InitialScale]

\* Numbers as pairs: comparison, Math.min and Math.max.
Leq(a, b) == a[1] * b[2] <= b[1] * a[2]

MathMin(a, b) == IF Leq(a, b) THEN a ELSE b

MathMax(a, b) == IF Leq(a, b) THEN b ELSE a

\* DeviceFrame's deviceWidth / deviceHeight: swapped in landscape.
deviceWidth(device, landscape) == IF landscape THEN device.height ELSE device.width

deviceHeight(device, landscape) == IF landscape THEN device.width ELSE device.height

\* The ornaments DeviceFrame draws (DeviceFrame:138-180).
showsNotch(device, landscape) == device.hasNotch /\ device.type = "phone" /\ ~landscape

showsDynamicIsland(device, landscape) == device.hasDynamicIsland /\ ~landscape

showsHomeButton(device, landscape) == device.hasHomeButton /\ ~landscape

showsLaptopNotch(device, landscape) == device.hasNotch /\ device.type = "laptop"

\* DeviceFrame.calculateScale (a grid card: not fullscreen).
targetHeight == 320

targetWidth == 280

calculateScale_cap50(device, landscape) ==
    LET scaleX == <<targetWidth, deviceWidth(device, landscape) + device.bezelWidth * 2>>
        scaleY == <<targetHeight, deviceHeight(device, landscape) + device.bezelWidth * 2>>
        newScale == MathMin(MathMin(scaleX, scaleY), <<5, 10>>)
    IN  MathMax(newScale, <<1, 10>>)

calculateScale(device, landscape) ==
    LET scaleX == <<targetWidth, deviceWidth(device, landscape) + device.bezelWidth * 2>>
        scaleY == <<targetHeight, deviceHeight(device, landscape) + device.bezelWidth * 2>>
        newScale == MathMin(MathMin(scaleX, scaleY), <<4, 10>>)
    IN  MathMax(newScale, <<1, 10>>)

\* The isLandscape prop App passes to the DeviceFrame of key k: the grid's
\* showLandscape (part_003:295), the modal's isLandscape (part_003:282).
FrameLandscape(k, sel, land) ==
    IF k = FullscreenKey THEN land
    ELSE land /\ devices[k].type \in {"phone", "tablet"}

\* The device prop of the DeviceFrame of key k.
FrameDevice(k, sel) == IF k = FullscreenKey THEN devices[sel] ELSE devices[k]

\* DeviceFrame's scale effect on [deviceWidth, deviceHeight, bezelWidth,
\* isFullscreen]: 0.8 in the modal, calculateScale in a grid card.
CardScales ==
    [k \in DeviceIds |->
        [land \in BOOLEAN |->
            calculateScale(FrameDevice(k, NoDevice), FrameLandscape(k, NoDevice, land))]]

ScaleEffect(k, sel, land) ==
    IF k = FullscreenKey THEN <<8, 10>>
    ELSE CardScales[k][land]

FreshPreview ==
    [mounted |-> TRUE, isLoading |-> TRUE, hasError |-> FALSE, pending |-> TRUE]

UnmountedPreview ==
    [mounted |-> FALSE, isLoading |-> FALSE, hasError |-> FALSE, pending |-> FALSE]

\* DeviceFrame when its url prop changes: the component has no effect on
\* url, so only the iframe reacts (its src changed: a new load starts).
FrameUrlChanged(f) == [f EXCEPT !.pending = TRUE]

\* DevicePreview when its url prop changes: the effect on [url] resets the
\* flags, and the iframe starts loading the new src.
PreviewUrlChanged_keepError(p) == [p EXCEPT !.isLoading = TRUE, !.pending = TRUE]

PreviewUrlChanged(p) ==
    [p EXCEPT !.isLoading = TRUE, !.hasError = FALSE, !.pending = TRUE]

\* CombinedView.getDeviceByIndex
getDeviceByIndex(index, phone, desktop, tablet) ==
    CASE index = 0 -> phone
      [] index = 1 -> desktop
      [] index = 2 -> tablet
      [] OTHER -> desktop

\* CombinedView's auto-rotate effect on [isCarouselPlaying]: the cleanup of
\* the previous run clears its interval (on a change of the dependency and
\* on unmount), and a run with isCarouselPlaying true sets a new one.
\* The intervals are counted: prev is the number of live ones.
AutoRotateEffect_noCleanup(prev, wasMounted, mounted, wasPlaying, playing) ==
    IF wasMounted /\ mounted /\ playing = wasPlaying THEN prev
    ELSE prev + (IF mounted /\ playing THEN 1 ELSE 0)

AutoRotateEffect_everyCommit(prev, wasMounted, mounted, wasPlaying, playing) ==
    IF ~mounted \/ ~playing THEN 0 ELSE prev + 1

AutoRotateEffect(prev, wasMounted, mounted, wasPlaying, playing) ==
    IF wasMounted /\ mounted /\ playing = wasPlaying THEN prev
    ELSE prev - (IF wasMounted /\ wasPlaying THEN 1 ELSE 0)
              + (IF mounted /\ playing THEN 1 ELSE 0)

(***************************************************************************)
(* The commit that follows a handler's state updates: instances that are   *)
(* no longer rendered unmount, newly rendered ones mount fresh, surviving  *)
(* ones see their changed props, and the effects run.  Read with the       *)
(* primed App and CombinedView variables already set by the handler.       *)
(***************************************************************************)
Commit ==
    \E wasCombined \in {CombinedShown(isFullscreen, selectedDevice, viewMode)},
       nowCombined \in {CombinedShown(isFullscreen', selectedDevice', viewMode')},
       nowFrames \in {MountedFrames(isFullscreen', selectedDevice', viewMode', activeFilter')},
       urlChanged \in {currentUrl' # currentUrl} :
        /\ frames' =
              [k \in FrameKeys |->
                  IF k \notin nowFrames THEN UnmountedFrame
                  ELSE [(IF ~frames[k].mounted THEN FreshFrame
                         ELSE IF urlChanged THEN FrameUrlChanged(frames[k])
                         ELSE frames[k])
                          EXCEPT !.scale = ScaleEffect(k, selectedDevice', isLandscape')]]
        /\ previews' =
              [k \in PreviewKeys |->
                  LET rendered ==
                          nowCombined /\ (k = LightboxKey => lightboxDevice' # NoDevice)
                      sameKey ==
                          k \in Slots =>
                              getDeviceByIndex(k, selectedPhone', selectedDesktop', selectedTablet')
                                = getDeviceByIndex(k, selectedPhone, selectedDesktop, selectedTablet)
                  IN  IF ~rendered THEN UnmountedPreview
                      ELSE IF ~(previews[k].mounted /\ wasCombined /\ sameKey) THEN FreshPreview
                      ELSE IF urlChanged THEN PreviewUrlChanged(previews[k])
                      ELSE previews[k]]
        /\ interval' = AutoRotateEffect(interval, wasCombined, nowCombined,
                                        isCarouselPlaying, isCarouselPlaying')

\* CombinedView's state: set to the useState initial values when the
\* handler's update mounts the component, left alone otherwise.
CombinedInitial ==
    /\ selectedPhone' = phones[1]
    /\ selectedTablet' = tablets[1]
    /\ selectedDesktop' = desktops[1]
    /\ lightboxDevice' = NoDevice
    /\ rotationAngle' = 0
    /\ isCarouselPlaying' = FALSE

CombinedKept == UNCHANGED combinedVars

CombinedAfterAppUpdate ==
    IF CombinedShown(isFullscreen', selectedDevice', viewMode') /\ ~CombinedMounted
    THEN CombinedInitial
    ELSE CombinedKept

(***************************************************************************)
(* Init: the App after its first render, in grid view with every device    *)
(* card mounted and loading.                                               *)
(***************************************************************************)
Init ==
    /\ inputUrl = "https://example.com"
    /\ currentUrl = "https://example.com"
    /\ isValidUrl = TRUE
    /\ selectedDevice = NoDevice
    /\ isFullscreen = FALSE
    /\ isLandscape = FALSE
    /\ activeFilter = NoFilter
    /\ viewMode = "grid"
    /\ selectedPhone = phones[1]
    /\ selectedTablet = tablets[1]
    /\ selectedDesktop = desktops[1]
    /\ lightboxDevice = NoDevice
    /\ rotationAngle = 0
    /\ isCarouselPlaying = FALSE
    /\ interval = 0
    /\ frames = [k \in FrameKeys |->
                    IF k \in DeviceIds
                    THEN [FreshFrame EXCEPT !.scale = ScaleEffect(k, NoDevice, FALSE)]
                    ELSE UnmountedFrame]
    /\ previews = [k \in PreviewKeys |-> UnmountedPreview]
    /\ lastEvent = "init"

(***************************************************************************)
(* App: the URL form.                                                      *)
(***************************************************************************)
SetInputUrl_live(text) ==
    /\ inputUrl' = text
    /\ currentUrl' = text
    /\ isValidUrl' = TRUE
    /\ UNCHANGED <<selectedDevice, isFullscreen, isLandscape, activeFilter, viewMode>>
    /\ CombinedAfterAppUpdate
    /\ Commit
    /\ lastEvent' = "setInputUrl"

\* The input's onChange (part_003:136-139).
SetInputUrl(text) ==
    /\ inputUrl' = text
    /\ isValidUrl' = TRUE
    /\ UNCHANGED <<currentUrl, selectedDevice, isFullscreen, isLandscape,
                   activeFilter, viewMode>>
    /\ CombinedAfterAppUpdate
    /\ Commit
    /\ lastEvent' = "setInputUrl"

\* handleLoadUrl, the valid branch (part_003:88-90).
AcceptUrl_noEcho(normalizedUrl) ==
    /\ isValidUrl' = TRUE
    /\ inputUrl' = inputUrl
    /\ currentUrl' = normalizedUrl

AcceptUrl(normalizedUrl) ==
    /\ isValidUrl' = TRUE
    /\ inputUrl' = normalizedUrl
    /\ currentUrl' = normalizedUrl

\* handleLoadUrl, the invalid branch (part_003:92).
RejectUrl_partialCommit(normalizedUrl) ==
    /\ isValidUrl' = FALSE
    /\ inputUrl' = normalizedUrl
    /\ currentUrl' = currentUrl

RejectUrl(normalizedUrl) ==
    /\ isValidUrl' = FALSE
    /\ UNCHANGED <<inputUrl, currentUrl>>

\* normalizeUrl and validateUrl tabulated over the texts the URL field can
\* hold (the typed texts and what a submit echoes into the field), so that
\* a submit looks its results up instead of re-scanning the string.
TypedTexts == {"https://example.com"} \cup UrlInputs \cup FewUrlInputs \cup CarouselUrlInputs

FieldTexts == TypedTexts \cup {normalizeUrl(t) : t \in TypedTexts}

NormalizedText == [t \in FieldTexts |-> normalizeUrl(t)]

ValidText == [t \in FieldTexts \cup {normalizeUrl(t) : t \in FieldTexts} |-> validateUrl(t)]

normalizeUrlOf(text) ==
    IF text \in DOMAIN NormalizedText THEN NormalizedText[text] ELSE normalizeUrl(text)

validateUrlOf(text) ==
    IF text \in DOMAIN ValidText THEN ValidText[text] ELSE validateUrl(text)

handleLoadUrl ==
    /\ \E normalizedUrl \in {normalizeUrlOf(inputUrl)} :
          IF validateUrlOf(normalizedUrl)
          THEN AcceptUrl(normalizedUrl)
          ELSE RejectUrl(normalizedUrl)
    /\ UNCHANGED <<selectedDevice, isFullscreen, isLandscape, activeFilter, viewMode>>
    /\ CombinedAfterAppUpdate
    /\ Commit
    /\ lastEvent' = "handleLoadUrl"

(***************************************************************************)
(* App: view mode, filter, orientation, fullscreen.  A control is enabled  *)
(* whenever App renders it.                                                *)
(***************************************************************************)
\* The view mode buttons (part_003:166-191), rendered in every state.
SetViewMode(mode) ==
    /\ viewMode' = mode
    /\ UNCHANGED <<inputUrl, currentUrl, isValidUrl, selectedDevice, isFullscreen,
                   isLandscape, activeFilter>>
    /\ CombinedAfterAppUpdate
    /\ Commit
    /\ lastEvent' = "setViewMode"

\* FilterButton onClick (part_003:108), rendered in grid view mode.
SetActiveFilter(type) ==
    /\ viewMode = "grid"
    /\ activeFilter' = type
    /\ UNCHANGED <<inputUrl, currentUrl, isValidUrl, selectedDevice, isFullscreen,
                   isLandscape, viewMode>>
    /\ CombinedAfterAppUpdate
    /\ Commit
    /\ lastEvent' = "setActiveFilter"

\* toggleOrientation, from the grid's toggle (part_003:206) or from the
\* fullscreen modal's (part_003:244).
toggleOrientation ==
    /\ \/ viewMode = "grid" /\ activeFilter \in {"phone", "tablet"}
       \/ /\ FullscreenShown(isFullscreen, selectedDevice)
          /\ devices[selectedDevice].type \in {"phone", "tablet"}
    /\ isLandscape' = ~isLandscape
    /\ UNCHANGED <<inputUrl, currentUrl, isValidUrl, selectedDevice, isFullscreen,
                   activeFilter, viewMode>>
    /\ CombinedAfterAppUpdate
    /\ Commit
    /\ lastEvent' = "toggleOrientation"

\* App.handleDeviceClick: a click on a card of the grid.
handleDeviceClick(device) ==
    /\ GridShown(isFullscreen, selectedDevice, viewMode)
    /\ device \in FilteredSetByFilter[activeFilter]
    /\ selectedDevice' = device
    /\ isFullscreen' = TRUE
    /\ UNCHANGED <<inputUrl, currentUrl, isValidUrl, isLandscape, activeFilter, viewMode>>
    /\ CombinedAfterAppUpdate
    /\ Commit
    /\ lastEvent' = "handleDeviceClick"

CloseFullscreen_resetFilter ==
    /\ FullscreenShown(isFullscreen, selectedDevice)
    /\ isFullscreen' = FALSE
    /\ activeFilter' = NoFilter
    /\ UNCHANGED <<inputUrl, currentUrl, isValidUrl, selectedDevice, isLandscape,
                   viewMode>>
    /\ CombinedAfterAppUpdate
    /\ Commit
    /\ lastEvent' = "closeFullscreen"

\* The modal's close button (part_003:267).
CloseFullscreen ==
    /\ FullscreenShown(isFullscreen, selectedDevice)
    /\ isFullscreen' = FALSE
    /\ UNCHANGED <<inputUrl, currentUrl, isValidUrl, selectedDevice, isLandscape,
                   activeFilter, viewMode>>
    /\ CombinedAfterAppUpdate
    /\ Commit
    /\ lastEvent' = "closeFullscreen"

(***************************************************************************)
(* CombinedView: handlers of the mounted carousel.                         *)
(***************************************************************************)
\* The first MaxChoice entries of a selector list.
Choices(list) == {list[i] : i \in 1..(IF MaxChoice < Len(list) THEN MaxChoice ELSE Len(list))}

\* DeviceSelector onChange for the three selectors (CombinedView:124-145).
SetSelectedPhone(device) ==
    /\ CombinedMounted
    /\ selectedPhone' = device
    /\ UNCHANGED <<selectedTablet, selectedDesktop, lightboxDevice, rotationAngle,
                   isCarouselPlaying>>
    /\ UNCHANGED appVars
    /\ Commit
    /\ lastEvent' = "setSelectedPhone"

SetSelectedDesktop(device) ==
    /\ CombinedMounted
    /\ selectedDesktop' = device
    /\ UNCHANGED <<selectedPhone, selectedTablet, lightboxDevice, rotationAngle,
                   isCarouselPlaying>>
    /\ UNCHANGED appVars
    /\ Commit
    /\ lastEvent' = "setSelectedDesktop"

SetSelectedTablet(device) ==
    /\ CombinedMounted
    /\ selectedTablet' = device
    /\ UNCHANGED <<selectedPhone, selectedDesktop, lightboxDevice, rotationAngle,
                   isCarouselPlaying>>
    /\ UNCHANGED appVars
    /\ Commit
    /\ lastEvent' = "setSelectedTablet"

\* CombinedView.rotateCarousel: prev => prev + 120.
RotationStep == 120

rotateCarousel_step90(prev) == prev + 90

rotateCarousel_step240(prev) == prev + 240

rotateCarousel(prev) == prev + RotationStep

\* The play/pause button (CombinedView:152).
TogglePlay_restart ==
    /\ CombinedMounted
    /\ isCarouselPlaying' = ~isCarouselPlaying
    /\ rotationAngle' = IF isCarouselPlaying THEN rotationAngle ELSE 0
    /\ UNCHANGED <<selectedPhone, selectedTablet, selectedDesktop, lightboxDevice>>
    /\ UNCHANGED appVars
    /\ Commit
    /\ lastEvent' = "togglePlay"

TogglePlay ==
    /\ CombinedMounted
    /\ isCarouselPlaying' = ~isCarouselPlaying
    /\ UNCHANGED <<selectedPhone, selectedTablet, selectedDesktop, lightboxDevice,
                   rotationAngle>>
    /\ UNCHANGED appVars
    /\ Commit
    /\ lastEvent' = "togglePlay"

\* The manual Next button (CombinedView:176).
ManualAdvance ==
    /\ CombinedMounted
    /\ rotationAngle < MaxRotations * RotationStep
    /\ rotationAngle' = rotateCarousel(rotationAngle)
    /\ UNCHANGED <<selectedPhone, selectedTablet, selectedDesktop, lightboxDevice,
                   isCarouselPlaying>>
    /\ UNCHANGED appVars
    /\ Commit
    /\ lastEvent' = "manualAdvance"

\* A tick of the live interval: rotateCarousel.  An update of a component
\* that is no longer mounted is dropped.
Tick ==
    /\ interval > 0
    /\ rotationAngle < MaxRotations * RotationStep
    /\ rotationAngle' = IF CombinedMounted THEN rotateCarousel(rotationAngle)
                        ELSE rotationAngle
    /\ UNCHANGED <<selectedPhone, selectedTablet, selectedDesktop, lightboxDevice,
                   isCarouselPlaying>>
    /\ UNCHANGED appVars
    /\ Commit
    /\ lastEvent' = "tick"

\* CombinedView.handleDeviceClick: a click on carousel slot deviceIndex.
SlotClick(deviceIndex) ==
    /\ CombinedMounted
    /\ lightboxDevice' = getDeviceByIndex(deviceIndex, selectedPhone, selectedDesktop,
                                          selectedTablet)
    /\ isCarouselPlaying' = FALSE
    /\ UNCHANGED <<selectedPhone, selectedTablet, selectedDesktop, rotationAngle>>
    /\ UNCHANGED appVars
    /\ Commit
    /\ lastEvent' = "slotClick"

closeLightbox_resume ==
    /\ CombinedMounted
    /\ lightboxDevice # NoDevice
    /\ lightboxDevice' = NoDevice
    /\ isCarouselPlaying' = TRUE
    /\ UNCHANGED <<selectedPhone, selectedTablet, selectedDesktop, rotationAngle>>
    /\ UNCHANGED appVars
    /\ Commit
    /\ lastEvent' = "closeLightbox"

\* CombinedView.closeLightbox.
closeLightbox ==
    /\ CombinedMounted
    /\ lightboxDevice # NoDevice
    /\ lightboxDevice' = NoDevice
    /\ UNCHANGED <<selectedPhone, selectedTablet, selectedDesktop, rotationAngle,
                   isCarouselPlaying>>
    /\ UNCHANGED appVars
    /\ Commit
    /\ lastEvent' = "closeLightbox"

(***************************************************************************)
(* CombinedView.getDeviceStyle.  Angles are whole degrees; the numbers the *)
(* code computes in floating point are held as integers in units of one    *)
(* millionth (1.0 is Micro).                                               *)
(***************************************************************************)
Micro == 1000000

\* JavaScript's a % n: the remainder has the sign of the dividend.
JsRem(a, n) == IF a >= 0 THEN a % n ELSE -((-a) % n)

\* Math.cos of 0..90 degrees, rounded to a millionth.
CosTable ==
    << 1000000, 999848, 999391, 998630, 997564, 996195, 994522, 992546,
       990268, 987688, 984808, 981627, 978148, 974370, 970296, 965926,
       961262, 956305, 951057, 945519, 939693, 933580, 927184, 920505,
       913545, 906308, 898794, 891007, 882948, 874620, 866025, 857167,
       848048, 838671, 829038, 819152, 809017, 798636, 788011, 777146,
       766044, 754710, 743145, 731354, 719340, 707107, 694658, 681998,
       669131, 656059, 642788, 629320, 615661, 601815, 587785, 573576,
       559193, 544639, 529919, 515038, 500000, 484810, 469472, 453990,
       438371, 422618, 406737, 390731, 374607, 358368, 342020, 325568,
       309017, 292372, 275637, 258819, 241922, 224951, 207912, 190809,
       173648, 156434, 139173, 121869, 104528, 87156, 69756, 52336,
       34899, 17452, 0 >>

\* Math.cos and Math.sin of an angle given in degrees.
cosDeg(deg) ==
    LET d == deg % 360
    IN  IF d <= 90 THEN CosTable[d + 1]
        ELSE IF d <= 180 THEN -CosTable[180 - d + 1]
        ELSE IF d <= 270 THEN -CosTable[d - 180 + 1]
        ELSE CosTable[360 - d + 1]

sinDeg(deg) == cosDeg(deg - 90)

\* ((currentAngle % 360) + 360) % 360
normalizedAngle_oneRemainder(currentAngle) == JsRem(currentAngle, 360)

normalizedAngle(currentAngle) == JsRem(JsRem(currentAngle, 360) + 360, 360)

radius == 280

\* translateX = Math.sin(radians) * radius
translateX(angle) == sinDeg(angle) * radius

\* translateZ = Math.cos(radians) * 150 - 150
translateZ(angle) == cosDeg(angle) * 150 - 150 * Micro

\* rotateY = -normalizedAngle * 0.3
rotateY(angle) == -((angle * 3 * Micro) \div 10)

\* scale = 0.7 + (Math.cos(radians) + 1) * 0.2
scaleAt(angle) == (7 * Micro) \div 10 + ((cosDeg(angle) + Micro) * 2) \div 10

\* opacity = 0.5 + (Math.cos(radians) + 1) * 0.25
opacityAt_wide(angle) == (5 * Micro) \div 10 + ((cosDeg(angle) + Micro) * 30) \div 100

opacityAt(angle) == (5 * Micro) \div 10 + ((cosDeg(angle) + Micro) * 25) \div 100

\* zIndex = Math.round((Math.cos(radians) + 1) * 10); Math.round is
\* floor(x + 0.5).
zIndexAt(angle) == ((cosDeg(angle) + Micro) * 10 + Micro \div 2) \div Micro

\* getDeviceStyle(deviceIndex), with the rotationAngle it closes over.
getDeviceStyle(deviceIndex, angle) ==
    LET baseAngle == deviceIndex * 120
        currentAngle == baseAngle - angle
        n == normalizedAngle(currentAngle)
    IN  [translateX |-> translateX(n), translateZ |-> translateZ(n),
         rotateY |-> rotateY(n), scale |-> scaleAt(n),
         opacity |-> opacityAt(n), zIndex |-> zIndexAt(n)]

\* A resize event of the window: the listener of every mounted grid card
\* runs calculateScale again (DeviceFrame:58-60).
Resize ==
    /\ frames' = [k \in FrameKeys |->
                    IF frames[k].mounted /\ k # FullscreenKey
                    THEN [frames[k] EXCEPT
                            !.scale = calculateScale(FrameDevice(k, selectedDevice),
                                          FrameLandscape(k, selectedDevice, isLandscape))]
                    ELSE frames[k]]
    /\ UNCHANGED <<appVars, combinedVars, interval, previews>>
    /\ lastEvent' = "resize"

(***************************************************************************)
(* DeviceFrame: the iframe's events and the retry button.                  *)
(***************************************************************************)
handleLoad(f) == [f EXCEPT !.isLoading = FALSE, !.hasError = FALSE, !.errorType = NoError]

handleError_asBlocked(f) ==
    [f EXCEPT !.isLoading = FALSE, !.hasError = TRUE, !.errorType = "blocked"]

handleError(f) == [f EXCEPT !.isLoading = FALSE, !.hasError = TRUE, !.errorType = "load"]

\* What checkIfBlocked meets when it reads the iframe's document: the read
\* throws (cross-origin, or a document without body), there is no document,
\* the body is empty, or the body has content.
Inspections == {"throws", "noDocument", "emptyBody", "content"}

checkIfBlocked_throwBlocked(f, inspection) ==
    IF inspection \in {"throws", "noDocument", "emptyBody"}
    THEN [f EXCEPT !.hasError = TRUE, !.errorType = "blocked"]
    ELSE f

checkIfBlocked(f, inspection) ==
    IF inspection \in {"noDocument", "emptyBody"}
    THEN [f EXCEPT !.hasError = TRUE, !.errorType = "blocked"]
    ELSE f

\* The Retry button's onClick (DeviceFrame:216-220): flags only, the
\* iframe's src is not touched.
retry_keepType(f) == [f EXCEPT !.isLoading = TRUE, !.hasError = FALSE]

retry(f) == [f EXCEPT !.isLoading = TRUE, !.hasError = FALSE, !.errorType = NoError]

TrackedFrames == {k \in FrameKeys : k <= MaxTracked}

\* iframe onLoad: handleLoad(), then checkIfBlocked(iframe).
FrameLoad(k, inspection) ==
    /\ frames[k].mounted
    /\ frames[k].pending
    /\ frames' = [frames EXCEPT
                    ![k] = [checkIfBlocked(handleLoad(frames[k]), inspection)
                               EXCEPT !.pending = FALSE, !.inspected = inspection]]
    /\ UNCHANGED <<appVars, combinedVars, interval, previews>>
    /\ lastEvent' = "frameLoad"

FrameError_shared(k) ==
    /\ frames[k].mounted
    /\ frames[k].pending
    /\ frames' = [j \in FrameKeys |->
                    IF frames[j].mounted
                    THEN [handleError(frames[j]) EXCEPT !.pending = FALSE]
                    ELSE frames[j]]
    /\ UNCHANGED <<appVars, combinedVars, interval, previews>>
    /\ lastEvent' = "frameError"

\* iframe onError: handleError.
FrameError(k) ==
    /\ frames[k].mounted
    /\ frames[k].pending
    /\ frames' = [frames EXCEPT ![k] = [handleError(frames[k]) EXCEPT !.pending = FALSE]]
    /\ UNCHANGED <<appVars, combinedVars, interval, previews>>
    /\ lastEvent' = "frameError"

\* The Retry button, rendered inside the error overlay.
FrameRetry(k) ==
    /\ frames[k].mounted
    /\ frames[k].hasError
    /\ frames' = [frames EXCEPT ![k] = retry(frames[k])]
    /\ UNCHANGED <<appVars, combinedVars, interval, previews>>
    /\ lastEvent' = "frameRetry"

\* DevicePreview's scale (CombinedView:362-365), computed at each render
\* from the props: Math.min(maxHeight / totalHeight, maxScale).
previewScale(device, maxHeight, isLightbox) ==
    LET totalHeight == device.height + device.bezelWidth * 2
        maxScale == IF isLightbox THEN <<8, 10>> ELSE <<35, 100>>
    IN  MathMin(<<maxHeight[1], maxHeight[2] * totalHeight>>, maxScale)

\* The maxHeight prop: 420 in a carousel slot (CombinedView:209),
\* window.innerHeight * 0.8 in the lightbox (CombinedView:264).
slotMaxHeight == <<420, 1>>

lightboxMaxHeight(innerHeight) == <<innerHeight * 8, 10>>

(***************************************************************************)
(* DevicePreview: the iframe's events (CombinedView:469-473).              *)
(***************************************************************************)
TrackedPreviews == {k \in PreviewKeys : k < MaxTracked \/ k = LightboxKey}

PreviewLoad(k) ==
    /\ previews[k].mounted
    /\ previews[k].pending
    /\ previews' = [previews EXCEPT ![k] = [@ EXCEPT !.isLoading = FALSE, !.pending = FALSE]]
    /\ UNCHANGED <<appVars, combinedVars, interval, frames>>
    /\ lastEvent' = "previewLoad"

PreviewError(k) ==
    /\ previews[k].mounted
    /\ previews[k].pending
    /\ previews' = [previews EXCEPT
                      ![k] = [@ EXCEPT !.isLoading = FALSE, !.hasError = TRUE,
                                       !.pending = FALSE]]
    /\ UNCHANGED <<appVars, combinedVars, interval, frames>>
    /\ lastEvent' = "previewError"

(***************************************************************************)
(* Specifications.  Each explores the handlers of one part of the program  *)
(* from the App's initial state.                                           *)
(***************************************************************************)
\* The URL form alone, over every text of UrlInputs.
NextUrl ==
    \/ \E text \in UrlInputs : SetInputUrl(text)
    \/ handleLoadUrl

SpecUrl == Init /\ [][NextUrl]_vars

\* The carousel: selectors, play, rotation and lightbox, beside the URL
\* form and the view mode buttons.
NextCarousel ==
    \/ \E text \in CarouselUrlInputs : SetInputUrl(text)
    \/ handleLoadUrl
    \/ \E mode \in {"grid", "combined"} : SetViewMode(mode)
    \/ \E device \in Choices(phones) : SetSelectedPhone(device)
    \/ \E device \in Choices(desktops) : SetSelectedDesktop(device)
    \/ \E device \in Choices(tablets) : SetSelectedTablet(device)
    \/ TogglePlay
    \/ ManualAdvance
    \/ Tick
    \/ \E deviceIndex \in Slots : SlotClick(deviceIndex)
    \/ closeLightbox

Spec == Init /\ [][NextCarousel]_vars

\* Grid previews: the URL form and the tracked DeviceFrames' events.
NextFrame ==
    \/ \E text \in FewUrlInputs : SetInputUrl(text)
    \/ handleLoadUrl
    \/ \E k \in TrackedFrames, inspection \in Inspections : FrameLoad(k, inspection)
    \/ \E k \in TrackedFrames : FrameError(k)
    \/ \E k \in TrackedFrames : FrameRetry(k)

SpecFrame == Init /\ [][NextFrame]_vars

\* Carousel previews: the URL form, the view mode, the lightbox and the
\* tracked DevicePreviews' events.
NextPreview ==
    \/ \E text \in FewUrlInputs : SetInputUrl(text)
    \/ handleLoadUrl
    \/ \E mode \in {"grid", "combined"} : SetViewMode(mode)
    \/ \E deviceIndex \in Slots : SlotClick(deviceIndex)
    \/ closeLightbox
    \/ \E k \in TrackedPreviews : PreviewLoad(k)
    \/ \E k \in TrackedPreviews : PreviewError(k)

SpecPreview == Init /\ [][NextPreview]_vars

\* Both kinds of preview: the grid's DeviceFrames and the carousel's
\* DevicePreviews with their events, beside the handlers that change what
\* the orchestrators hold.
NextSurfaces ==
    \/ \E mode \in {"grid", "combined"} : SetViewMode(mode)
    \/ \E type \in {NoFilter, "phone"} : SetActiveFilter(type)
    \/ TogglePlay
    \/ ManualAdvance
    \/ \E k \in TrackedFrames, inspection \in Inspections : FrameLoad(k, inspection)
    \/ \E k \in TrackedFrames : FrameError(k)
    \/ \E k \in TrackedFrames : FrameRetry(k)
    \/ \E k \in TrackedPreviews : PreviewLoad(k)
    \/ \E k \in TrackedPreviews : PreviewError(k)

SpecSurfaces == Init /\ [][NextSurfaces]_vars

\* getDeviceStyle as a function of the angle: the mounted carousel with
\* rotationAngle drawn from MaxTurns turns either way, and the handlers that
\* rotate it and re-render the slots.
StyleAngles == (-(MaxTurns * 360))..(MaxTurns * 360)

InitStyle ==
    /\ inputUrl = "https://example.com"
    /\ currentUrl = "https://example.com"
    /\ isValidUrl = TRUE
    /\ selectedDevice = NoDevice
    /\ isFullscreen = FALSE
    /\ isLandscape = FALSE
    /\ activeFilter = NoFilter
    /\ viewMode = "combined"
    /\ selectedPhone = phones[1]
    /\ selectedTablet = tablets[1]
    /\ selectedDesktop = desktops[1]
    /\ lightboxDevice = NoDevice
    /\ rotationAngle \in StyleAngles
    /\ isCarouselPlaying = FALSE
    /\ interval = 0
    /\ frames = [k \in FrameKeys |-> UnmountedFrame]
    /\ previews = [k \in PreviewKeys |-> IF k \in Slots THEN FreshPreview ELSE UnmountedPreview]
    /\ lastEvent = "init"

NextStyle ==
    \/ TogglePlay
    \/ ManualAdvance
    \/ Tick

SpecStyle == InitStyle /\ [][NextStyle]_vars

\* The carousel's rotation alone: view mode, the phone selector, play,
\* rotation and lightbox.
NextRotation ==
    \/ \E mode \in {"grid", "combined"} : SetViewMode(mode)
    \/ \E device \in Choices(phones) : SetSelectedPhone(device)
    \/ TogglePlay
    \/ ManualAdvance
    \/ Tick
    \/ \E deviceIndex \in Slots : SlotClick(deviceIndex)
    \/ closeLightbox

SpecRotation == Init /\ [][NextRotation]_vars

\* The grid: filter tabs, orientation toggle, card clicks, the fullscreen
\* modal and window resizes.
NextGrid ==
    \/ \E type \in DeviceTypes \cup {NoFilter} : SetActiveFilter(type)
    \/ toggleOrientation
    \/ \E device \in DeviceIds : handleDeviceClick(device)
    \/ CloseFullscreen
    \/ Resize

SpecGrid == Init /\ [][NextGrid]_vars

(***************************************************************************)
(* Claims.                                                                 *)
(***************************************************************************)
\* The text starts with one of the schemes the claims name, and its colon.
NamedSchemes == {"http", "https", "ftp", "mailto"}

HasScheme(s) == SchemeLen(s) > 0 /\ ToLower(SubSeq(s, 1, SchemeLen(s))) \in NamedSchemes

\* C1: a submit whose normalized input fails validation commits nothing:
\* currentUrl and inputUrl keep their values and only isValidUrl drops to
\* FALSE, whatever the prior state and the invalid input.
C1_RejectCommitsNothing ==
    [][(lastEvent' = "handleLoadUrl" /\ ~validateUrl(normalizeUrl(inputUrl)))
         => /\ currentUrl' = currentUrl
            /\ inputUrl' = inputUrl
            /\ isValidUrl' = FALSE]_vars

\* C1 witness: "not a url" was rejected after another URL had been committed.
C1_Witness ==
    /\ lastEvent = "handleLoadUrl"
    /\ inputUrl = "not a url"
    /\ ~isValidUrl
    /\ currentUrl = "https://example.org"

\* C2: a submit whose normalized input passes validation sets currentUrl
\* and inputUrl to the normalized form and clears the error; "example.com"
\* is committed as "https://example.com".
C2_AcceptCommitsNormalized ==
    [][lastEvent' = "handleLoadUrl"
         => /\ validateUrl(normalizeUrl(inputUrl))
               => /\ currentUrl' = normalizeUrl(inputUrl)
                  /\ inputUrl' = currentUrl'
                  /\ isValidUrl' = TRUE
            /\ inputUrl = "example.com"
               => /\ currentUrl' = "https://example.com"
                  /\ inputUrl' = "https://example.com"
                  /\ isValidUrl' = TRUE]_vars

\* C2 witness: "  example.org " was submitted and committed, trimmed and
\* with the default scheme, into both fields.
C2_Witness ==
    /\ lastEvent = "handleLoadUrl"
    /\ isValidUrl
    /\ currentUrl = "https://example.org"
    /\ inputUrl = "https://example.org"

\* C3: an input that carries a scheme of its own is committed with that
\* scheme and nothing in front of it, and normalizing twice is normalizing
\* once.
C3_OwnSchemeKept ==
    /\ [](normalizeUrl(normalizeUrl(inputUrl)) = normalizeUrl(inputUrl))
    /\ [][(lastEvent' = "handleLoadUrl" /\ isValidUrl' /\ HasScheme(trim(inputUrl)))
            => currentUrl' = trim(inputUrl)]_vars

\* C4: a view mode switch resets neither the carousel's three selections
\* nor currentUrl.
C4_ModeSwitchKeepsSelections ==
    [][lastEvent' = "setViewMode"
         => /\ selectedPhone' = selectedPhone
            /\ selectedTablet' = selectedTablet
            /\ selectedDesktop' = selectedDesktop
            /\ currentUrl' = currentUrl]_vars

\* C5: in the mounted carousel, an open lightbox implies that auto-play is
\* off.
C5_LightboxImpliesPaused ==
    (CombinedMounted /\ lightboxDevice # NoDevice) => ~isCarouselPlaying

\* C6: a timer tick happens only while the carousel is mounted and playing,
\* and no interval is live after a pause, a lightbox opening or an unmount.
C6_NoTickAfterCancel ==
    /\ []((~isCarouselPlaying \/ ~CombinedMounted) => interval = 0)
    /\ [][lastEvent' = "tick" => (isCarouselPlaying /\ CombinedMounted)]_vars

\* C6 witness: auto-play was stopped, by pause or by a slot click, after the
\* carousel had rotated, and no interval is left.
C6_Witness ==
    /\ CombinedMounted
    /\ lastEvent \in {"togglePlay", "slotClick"}
    /\ ~isCarouselPlaying
    /\ interval = 0
    /\ rotationAngle > 0

\* C7: the play/pause toggle leaves rotationAngle as it was.
C7_ToggleKeepsAngle ==
    [][lastEvent' = "togglePlay" => rotationAngle' = rotationAngle]_vars

\* C7 witness: auto-play was started with the carousel already rotated.
C7_Witness ==
    /\ lastEvent = "togglePlay"
    /\ isCarouselPlaying
    /\ interval > 0
    /\ rotationAngle > 0

\* C8: manual advance is enabled in every state of the mounted carousel
\* (below the model's rotation bound), and it, like a timer tick, adds
\* exactly 120 to rotationAngle and changes nothing else of the carousel.
C8_AdvanceAlwaysBy120 ==
    /\ []((CombinedMounted /\ rotationAngle < MaxRotations * RotationStep)
            => ENABLED ManualAdvance)
    /\ [][lastEvent' \in {"manualAdvance", "tick"}
            => /\ rotationAngle' = rotationAngle + 120
               /\ UNCHANGED <<isCarouselPlaying, selectedPhone, selectedTablet,
                              selectedDesktop, lightboxDevice, interval>>]_vars

\* C8 witness: a manual advance was made while auto-play was running.
C8_Witness ==
    /\ lastEvent = "manualAdvance"
    /\ isCarouselPlaying
    /\ interval > 0
    /\ rotationAngle = 240

\* C9: a change of the url prop puts every mounted DeviceFrame into Loading
\* with no error and no errorType.
C9_FrameResetOnUrlChange ==
    [][currentUrl' # currentUrl
         => \A k \in FrameKeys :
               frames'[k].mounted
                 => /\ frames'[k].isLoading
                    /\ ~frames'[k].hasError
                    /\ frames'[k].errorType = NoError]_vars

\* C10: a change of the url prop puts every mounted DevicePreview into
\* Loading with its error flag cleared, whatever its phase was.
C10_PreviewResetOnUrlChange ==
    [][currentUrl' # currentUrl
         => \A k \in PreviewKeys :
               previews'[k].mounted
                 => (previews'[k].isLoading /\ ~previews'[k].hasError)]_vars

\* C10 witness: a new URL was committed with the lightbox open; the slot
\* previews and the lightbox preview are Loading and their iframes load.
C10_Witness ==
    /\ lastEvent = "handleLoadUrl"
    /\ currentUrl = "https://example.org"
    /\ \A k \in TrackedPreviews :
          /\ previews[k].mounted
          /\ previews[k].isLoading
          /\ ~previews[k].hasError
          /\ previews[k].pending

\* The DeviceFrame phases, read from the flags.
Loading(f) == f.mounted /\ f.isLoading /\ ~f.hasError

Loaded(f) == f.mounted /\ ~f.isLoading /\ ~f.hasError

Failed(f) == f.mounted /\ ~f.isLoading /\ f.hasError

\* C11: a load error received while Loading puts the DeviceFrame into Failed
\* with errorType "load"; Retry from Failed puts it into Loading with the
\* error flag and errorType cleared; and Retry is offered in every Failed
\* state, however many retries came before.
C11_ErrorThenRetry ==
    /\ [](\A k \in TrackedFrames : Failed(frames[k]) => ENABLED FrameRetry(k))
    /\ [][\A k \in FrameKeys :
             frames'[k] # frames[k]
               => /\ (lastEvent' = "frameError" /\ Loading(frames[k]))
                     => (Failed(frames'[k]) /\ frames'[k].errorType = "load")
                  /\ (lastEvent' = "frameRetry" /\ Failed(frames[k]))
                     => (Loading(frames'[k]) /\ frames'[k].errorType = NoError)]_vars

\* C11 witness: Retry was pressed on a DeviceFrame that had failed to load a
\* second URL.
C11_Witness ==
    /\ lastEvent = "frameRetry"
    /\ currentUrl = "https://example.org"
    /\ Loading(frames[1])
    /\ frames[1].errorType = NoError

\* C12: Retry reissues the load: a DeviceFrame in Loading always has a load
\* attempt in flight, whose answer (load or error) takes it out of Loading.
C12_LoadingHasLoadInFlight ==
    \A k \in FrameKeys : Loading(frames[k]) => frames[k].pending

\* C13: a DeviceFrame fails with errorType "blocked" only at a load event
\* whose inspection read an accessible document and found its body empty; a
\* load whose document is absent, or whose inspection threw, is never
\* reported as blocked.
C13_BlockedOnlyOnEmptyBody ==
    [][\A k \in FrameKeys :
          (frames'[k] # frames[k] /\ frames'[k].errorType = "blocked")
            => /\ lastEvent' = "frameLoad"
               /\ frames'[k].inspected = "emptyBody"]_vars

\* C14: a load event whose inspection throws leaves the DeviceFrame Loaded,
\* with no error flag and no errorType, whatever its phase was.
C14_ThrowingInspectionLoads ==
    [][\A k \in FrameKeys :
          (lastEvent' = "frameLoad" /\ frames'[k] # frames[k]
             /\ frames'[k].inspected = "throws")
            => (Loaded(frames'[k]) /\ frames'[k].errorType = NoError)]_vars

\* C14 witness: the second URL loaded into a DeviceFrame with an inspection
\* that threw.
C14_Witness ==
    /\ lastEvent = "frameLoad"
    /\ currentUrl = "https://example.org"
    /\ frames[1].inspected = "throws"
    /\ ~frames[1].pending
    /\ Loaded(frames[1])

\* C15: the flags of a DeviceFrame encode exactly one phase: isLoading and
\* hasError are never both true, and errorType is set only in Failed.
C15_OnePhase ==
    \A k \in FrameKeys :
        /\ ~(frames[k].isLoading /\ frames[k].hasError)
        /\ frames[k].errorType # NoError => Failed(frames[k])
        /\ frames[k].mounted
             => (Loading(frames[k]) \/ Loaded(frames[k]) \/ Failed(frames[k]))

\* C15 witness: one DeviceFrame is back in Loading after a retry of a
\* blocked load while another is Failed with errorType "load".
C15_Witness ==
    /\ lastEvent = "frameRetry"
    /\ Loading(frames[1])
    /\ frames[1].inspected = "emptyBody"
    /\ Failed(frames[2])
    /\ frames[2].errorType = "load"

\* The events of one preview instance.
SurfaceEvents == {"frameLoad", "frameError", "frameRetry", "previewLoad", "previewError"}

\* C16: an event of one preview (load, error, retry) changes that preview
\* only: no other DeviceFrame or DevicePreview, and nothing the
\* orchestrators hold (currentUrl, viewMode, activeFilter, the selections,
\* rotationAngle, isCarouselPlaying and its interval).
C16_SurfaceEventIsLocal ==
    [][lastEvent' \in SurfaceEvents
         => /\ UNCHANGED <<appVars, combinedVars, interval>>
            /\ Cardinality({k \in FrameKeys : frames'[k] # frames[k]})
                 + Cardinality({k \in PreviewKeys : previews'[k] # previews[k]}) = 1]_vars

\* C16 witness: a load error has failed grid card 1 while card 2 is still
\* Loading, under a phone filter.
C16_Witness ==
    /\ lastEvent = "frameError"
    /\ activeFilter = "phone"
    /\ Failed(frames[1])
    /\ Loading(frames[2])
    /\ frames[2].pending

C18_AngleNeverDecreases ==
    /\ [][rotationAngle' >= rotationAngle]_vars
    /\ [][rotationAngle' # rotationAngle
            => (lastEvent' \in {"manualAdvance", "tick"}
                  /\ rotationAngle' = rotationAngle + RotationStep)]_vars

\* The style of each carousel slot as rendered at rotationAngle.
SlotStyle(deviceIndex) == getDeviceStyle(deviceIndex, rotationAngle)

\* C19: getDeviceStyle has period 360 in the angle, negative angles
\* included: every slot gets the same translation, rotation, scale, opacity
\* and z-index at rotationAngle + 360, i.e. after three advances of 120.
C19_StylePeriod360 ==
    \A deviceIndex \in Slots :
        /\ getDeviceStyle(deviceIndex, rotationAngle + 360) = SlotStyle(deviceIndex)
        /\ getDeviceStyle(deviceIndex,
                          rotateCarousel(rotateCarousel(rotateCarousel(rotationAngle))))
             = SlotStyle(deviceIndex)

\* C19 witness: an advance from a negative angle has brought slot 1 to the
\* front, one turn below where it is in front at a positive angle.
C19_Witness ==
    /\ lastEvent = "manualAdvance"
    /\ rotationAngle = -240
    /\ SlotStyle(1).zIndex = 20
    /\ SlotStyle(1).translateX = 0
    /\ SlotStyle(0).rotateY = -((240 * 3 * Micro) \div 10)

\* C20: the opacity of every slot lies in [0.5, 1.0] at every angle, and it
\* is 1.0 exactly for the slot whose normalized angle is 0.
C20_OpacityRange ==
    \A deviceIndex \in Slots :
        /\ SlotStyle(deviceIndex).opacity >= Micro \div 2
        /\ SlotStyle(deviceIndex).opacity <= Micro
        /\ SlotStyle(deviceIndex).opacity = Micro
             <=> normalizedAngle(deviceIndex * 120 - rotationAngle) = 0

\* C20 witness: at a negative angle slot 0 is in front with opacity 1.0
\* while the other two are dimmed alike.
C20_Witness ==
    /\ lastEvent = "tick"
    /\ rotationAngle = -360
    /\ SlotStyle(0).opacity = Micro
    /\ SlotStyle(1).opacity = SlotStyle(2).opacity
    /\ SlotStyle(1).opacity < Micro

\* C21: the scale of every grid DeviceFrame, portrait or landscape, is at
\* least 0.1 and at most 0.4, for the cards on screen and for calculateScale
\* on every device of the catalog in either orientation; and a resize event
\* recomputes the same scales.
C21_CardScaleRange ==
    /\ [](\A k \in DeviceIds :
            /\ frames[k].mounted
                 => (Leq(<<1, 10>>, frames[k].scale) /\ Leq(frames[k].scale, <<4, 10>>))
            /\ \A land \in BOOLEAN :
                 /\ Leq(<<1, 10>>, calculateScale(devices[k], land))
                 /\ Leq(calculateScale(devices[k], land), <<4, 10>>))
    /\ [][lastEvent' = "resize" => frames' = frames]_vars

\* C21 witness: a resize with the tablets in landscape; the iPad Pro card
\* is scaled by its landscape width, the iPhone SE card by the cap.
C21_Witness ==
    /\ lastEvent = "resize"
    /\ isLandscape
    /\ activeFilter = "tablet"
    /\ frames[6].mounted
    /\ frames[6].scale = <<280, 1406>>
    /\ calculateScale(devices[3], FALSE) = <<4, 10>>

\* C22: the scale of every mounted DevicePreview lies between the floor 0.1
\* and its ceiling, 0.35 in a carousel slot and 0.8 in the lightbox, at
\* every height of the window.
C22_PreviewScaleRange ==
    CombinedMounted
      => /\ \A k \in Slots :
              LET scale == previewScale(devices[getDeviceByIndex(k, selectedPhone,
                                                   selectedDesktop, selectedTablet)],
                                        slotMaxHeight, FALSE)
              IN  Leq(<<1, 10>>, scale) /\ Leq(scale, <<35, 100>>)
         /\ lightboxDevice # NoDevice
              => \A innerHeight \in WindowHeights :
                    LET scale == previewScale(devices[lightboxDevice],
                                              lightboxMaxHeight(innerHeight), TRUE)
                    IN  Leq(<<1, 10>>, scale) /\ Leq(scale, <<8, 10>>)

\* The device cards on screen.
CardsShown == {k \in DeviceIds : frames[k].mounted}

\* C23: in the grid, under any filter, every card on screen can be clicked
\* and the click opens the fullscreen modal for that card's device; opening
\* and closing the modal leave activeFilter as it was, and after the close
\* the grid shows the devices of that filter again.
C23_FullscreenKeepsFilter ==
    /\ [](GridShown(isFullscreen, selectedDevice, viewMode)
            => /\ CardsShown = FilteredSetByFilter[activeFilter]
               /\ \A device \in CardsShown :
                     ENABLED (/\ handleDeviceClick(device)
                              /\ selectedDevice' = device
                              /\ isFullscreen'
                              /\ frames'[FullscreenKey].mounted))
    /\ [][lastEvent' \in {"handleDeviceClick", "closeFullscreen"}
            => activeFilter' = activeFilter]_vars
    /\ [][lastEvent' = "closeFullscreen"
            => /\ GridShown(isFullscreen', selectedDevice', viewMode')
               /\ {k \in DeviceIds : frames'[k].mounted}
                    = FilteredSetByFilter[activeFilter]]_vars

\* C23 witness: under the tablet filter the modal was opened for the iPad
\* Mini and closed again; the grid shows the four tablets.
C23_Witness ==
    /\ lastEvent = "closeFullscreen"
    /\ activeFilter = "tablet"
    /\ selectedDevice = 8
    /\ ~isFullscreen
    /\ CardsShown = {6, 7, 8, 9}

\* The DeviceFrame of key k as rendered: its device and isLandscape props.
ShownDevice(k) == FrameDevice(k, selectedDevice)

ShownLandscape(k) == FrameLandscape(k, selectedDevice, isLandscape)

\* C24: a DeviceFrame rendered in landscape has its width and height
\* swapped and draws no notch, no dynamic island and no home button,
\* whatever the device.
C24_LandscapeHasNoOrnament ==
    \A k \in FrameKeys :
        (frames[k].mounted /\ ShownLandscape(k))
          => /\ deviceWidth(ShownDevice(k), TRUE) = ShownDevice(k).height
             /\ deviceHeight(ShownDevice(k), TRUE) = ShownDevice(k).width
             /\ ~showsNotch(ShownDevice(k), TRUE)
             /\ ~showsDynamicIsland(ShownDevice(k), TRUE)
             /\ ~showsHomeButton(ShownDevice(k), TRUE)
             /\ ~showsLaptopNotch(ShownDevice(k), TRUE)

\* C26: a laptop or desktop DeviceFrame, grid card or fullscreen, is never
\* rendered in landscape: its width and height are the catalog's.
C26_LandscapeOnlyPhoneTablet ==
    \A k \in FrameKeys :
        (frames[k].mounted /\ ShownDevice(k).type \in {"laptop", "desktop"})
          => /\ ~ShownLandscape(k)
             /\ deviceWidth(ShownDevice(k), ShownLandscape(k)) = ShownDevice(k).width
             /\ deviceHeight(ShownDevice(k), ShownLandscape(k)) = ShownDevice(k).height

\* The angular position of a slot at an angle of the carousel.
SlotPosition(deviceIndex, angle) == normalizedAngle(deviceIndex * 120 - angle)

\* The slots in front.
FrontSlots(angle) == {i \in Slots : SlotPosition(i, angle) = 0}

\* C25: in the mounted carousel the three slots hold the positions 0, 120
\* and 240, one each; exactly one slot is in front, at depth 0 with the
\* highest z-index, the other two behind it at negative depth; an advance
\* moves every slot to the position of the slot before it, so the front
\* passes from phone (0) to desktop (1) to tablet (2) and to phone again.
C25_SlotsCycle ==
    /\ [](CombinedMounted
            => /\ {SlotPosition(i, rotationAngle) : i \in Slots} = {0, 120, 240}
               /\ Cardinality(FrontSlots(rotationAngle)) = 1
               /\ rotationAngle = 0 => FrontSlots(rotationAngle) = {0}
               /\ \A f \in FrontSlots(rotationAngle) :
                     /\ SlotStyle(f).translateZ = 0
                     /\ \A i \in Slots \ {f} :
                           /\ SlotStyle(i).translateZ < 0
                           /\ SlotStyle(i).zIndex < SlotStyle(f).zIndex)
    /\ [][lastEvent' \in {"manualAdvance", "tick"}
            => /\ \A i \in Slots :
                     SlotPosition(i, rotationAngle')
                       = SlotPosition((i + 2) % 3, rotationAngle)
               /\ FrontSlots(rotationAngle')
                    = {(f + 1) % 3 : f \in FrontSlots(rotationAngle)}]_vars

\* C25 witness: two advances from the start, the second by the timer, have
\* brought the tablet slot to the front.
C25_Witness ==
    /\ CombinedMounted
    /\ lastEvent = "tick"
    /\ rotationAngle = 240
    /\ FrontSlots(rotationAngle) = {2}
    /\ SlotStyle(2).zIndex = 20
    /\ SlotStyle(0).zIndex = 5

\* C27: at most one auto-play interval is live at any time, and one is live
\* exactly when the carousel is mounted with isCarouselPlaying true; so the
\* ticks of one period advance rotationAngle by one step of 120.
C27_AtMostOneTimer ==
    /\ [](interval \in {0, 1})
    /\ [](interval = 1 <=> (CombinedMounted /\ isCarouselPlaying))
    /\ [][lastEvent' = "tick"
            => (interval = 1 /\ rotationAngle' = rotationAngle + RotationStep)]_vars

\* C27 witness: auto-play runs again after a slot click had stopped it and
\* the lightbox was closed; one interval is live.
C27_Witness ==
    /\ CombinedMounted
    /\ lastEvent = "tick"
    /\ isCarouselPlaying
    /\ interval = 1
    /\ rotationAngle = 360
    /\ selectedPhone = phones[2]

\* C28: currentUrl passes validateUrl in every state; it changes only at a
\* submit, to the normalized input that passed validation; and typing into
\* the field sets the text and clears the error without touching it.
C28_CurrentUrlValid ==
    /\ [](validateUrl(currentUrl))
    /\ [][currentUrl' # currentUrl
            => /\ lastEvent' = "handleLoadUrl"
               /\ currentUrl' = normalizeUrl(inputUrl)
               /\ validateUrl(normalizeUrl(inputUrl))]_vars
    /\ [][lastEvent' = "setInputUrl"
            => /\ currentUrl' = currentUrl
               /\ isValidUrl'
               /\ inputUrl' \in UrlInputs]_vars

\* C28 witness: after a URL was committed and a later submit rejected, the
\* user typed an invalid text; currentUrl is still the committed URL.
C28_Witness ==
    /\ lastEvent = "setInputUrl"
    /\ inputUrl = "not a url"
    /\ isValidUrl
    /\ currentUrl = "https://a.b:8080"
    /\ validateUrl(currentUrl)

====
